---- MODULE Spec2Model ----
(***************************************************************************)
(* Model of the detection-evaluation core (src/detector/data_obj_detect.py)*)
(* and of the motion-prediction core (src/motion_prediction/kalman.py).    *)
(*                                                                         *)
(* Numbers are exact: a real number is an integer, or a quotient <<n, d>>  *)
(* with d > 0.  The floats nan, inf and -inf are <<0, 0>>, <<1, 0>> and    *)
(* <<-1, 0>>.  Boxes are 4-tuples <<x1, y1, x2, y2>>.                      *)
(***************************************************************************)
EXTENDS Integers, Sequences, FiniteSets, TLC

VARIABLES
    \* tp_and_fp_of_detection
    im_gt, im_det, found, im_tp, im_fp, det_i, match_pc,
    \* detection_metrics_from_tp_and_fp
    tp, fp, npos, detector_eval_dict, ap_pc,
    \* freeze_at_mean
    traj, traj_type, freeze_ret, freeze_pc,
    \* obj_is_moving
    mv_trajectory, mv_ret, mv_pc,
    \* KalmanFilter / FullFilter
    filter_class, kalman, trajectory, trajectory_type, future_len, filter_ret, last_call,
    \* SORTKalmanFilter
    initial_state, sort_kalman, box, sort_ret, sort_last,
    \* convert_box_to_state / convert_state_to_box
    boxes, states, convert_ret, convert_pc,
    \* compare_detectors
    frame_id, frame_gt, im_det1, im_det2, compare_results, compare_pc

matchVars == <<im_gt, im_det, found, im_tp, im_fp, det_i, match_pc>>

apVars == <<tp, fp, npos, detector_eval_dict, ap_pc>>

freezeVars == <<traj, traj_type, freeze_ret, freeze_pc>>

movingVars == <<mv_trajectory, mv_ret, mv_pc>>

filterVars ==
    <<filter_class, kalman, trajectory, trajectory_type, future_len, filter_ret, last_call>>

sortVars == <<initial_state, sort_kalman, box, sort_ret, sort_last>>

convertVars == <<boxes, states, convert_ret, convert_pc>>

compareVars == <<frame_id, frame_gt, im_det1, im_det2, compare_results, compare_pc>>

vars ==
    <<matchVars, apVars, freezeVars, movingVars, filterVars, sortVars, convertVars,
      compareVars>>

\* what a component leaves alone: the variables of the others
notMatch ==
    <<apVars, freezeVars, movingVars, filterVars, sortVars, convertVars, compareVars>>

notAp ==
    <<matchVars, freezeVars, movingVars, filterVars, sortVars, convertVars, compareVars>>

notFreeze ==
    <<matchVars, apVars, movingVars, filterVars, sortVars, convertVars, compareVars>>

notMoving ==
    <<matchVars, apVars, freezeVars, filterVars, sortVars, convertVars, compareVars>>

notFilter ==
    <<matchVars, apVars, freezeVars, movingVars, sortVars, convertVars, compareVars>>

notSort ==
    <<matchVars, apVars, freezeVars, movingVars, filterVars, convertVars, compareVars>>

notConvert ==
    <<matchVars, apVars, freezeVars, movingVars, filterVars, sortVars, compareVars>>

notCompare ==
    <<matchVars, apVars, freezeVars, movingVars, filterVars, sortVars, convertVars>>

(***************************************************************************)
(* Generic helpers                                                         *)
(***************************************************************************)
Max(a, b) == IF a >= b THEN a ELSE b

Min(a, b) == IF a <= b THEN a ELSE b

\* all sequences over S of length 0..n
SeqUpTo(S, n) == UNION {[1..k -> S] : k \in 0..n}

Zeros(n) == [k \in 1..n |-> 0]

RECURSIVE SumSeq(_)
SumSeq(s) == IF s = <<>> THEN 0 ELSE s[1] + SumSeq(Tail(s))

(***************************************************************************)
(* Exact arithmetic on quotients <<n, d>>, d > 0, extended by the floats   *)
(* nan, inf and -inf that numpy's division by 0.0 produces                 *)
(***************************************************************************)
RECURSIVE GCD(_, _)
GCD(a, b) == IF b = 0 THEN a ELSE GCD(b, a % b)

Abs(a) == IF a < 0 THEN -a ELSE a

NaN == <<0, 0>>

Inf == <<1, 0>>

NegInf == <<-1, 0>>

\* the quotient n / d in lowest terms, d > 0
Q(n, d) ==
    LET g == GCD(Abs(n), d)
    IN  <<n \div g, d \div g>>

IsFinite(a) == a[2] # 0

IsNaN(a) == a = NaN

\* numpy: x / 0.0 is nan for x = 0 and +-inf otherwise (a warning, no exception)
FDiv(n, d) ==
    IF d = 0
    THEN IF n = 0 THEN NaN ELSE IF n > 0 THEN Inf ELSE NegInf
    ELSE Q(n, d)

FNeg(a) == <<-a[1], a[2]>>

FAdd(a, b) ==
    IF IsNaN(a) \/ IsNaN(b) THEN NaN
    ELSE IF ~IsFinite(a) /\ ~IsFinite(b) THEN (IF a = b THEN a ELSE NaN)
    ELSE IF ~IsFinite(a) THEN a
    ELSE IF ~IsFinite(b) THEN b
    ELSE Q(a[1] * b[2] + b[1] * a[2], a[2] * b[2])

FSub(a, b) == FAdd(a, FNeg(b))

FSign(a) == IF a[1] > 0 THEN 1 ELSE IF a[1] < 0 THEN -1 ELSE 0

FMul(a, b) ==
    IF IsNaN(a) \/ IsNaN(b) THEN NaN
    ELSE IF IsFinite(a) /\ IsFinite(b) THEN Q(a[1] * b[1], a[2] * b[2])
    ELSE IF FSign(a) * FSign(b) = 0 THEN NaN
    ELSE IF FSign(a) * FSign(b) > 0 THEN Inf ELSE NegInf

\* a > b of IEEE floats: false when either is nan
FGreater(a, b) ==
    IF IsNaN(a) \/ IsNaN(b) THEN FALSE
    ELSE IF ~IsFinite(a) \/ ~IsFinite(b)
         THEN (a = Inf /\ b # Inf) \/ (b = NegInf /\ a # NegInf)
    ELSE a[1] * b[2] > b[1] * a[2]

\* a != b of IEEE floats: nan differs from everything, itself included
FNeq(a, b) == IsNaN(a) \/ IsNaN(b) \/ a # b

\* np.maximum / np.max of two floats: nan wins
FMax(a, b) ==
    IF IsNaN(a) \/ IsNaN(b) THEN NaN
    ELSE IF FGreater(b, a) THEN b ELSE a

\* f"{x:.2f}" for x >= 0: the nearest number of hundredths <<h, 100>> (an exact
\* tie goes to the even neighbour, as it does for the ties a double can hold:
\* 0.125 -> "0.12"), and nan / inf print as themselves
Fmt2(a) ==
    IF ~IsFinite(a) THEN a
    ELSE LET n == 100 * a[1]
             q == n \div a[2]
             r == n % a[2]
         IN  IF 2 * r > a[2] THEN <<q + 1, 100>>
             ELSE IF 2 * r = a[2] THEN <<q + (q % 2), 100>>
             ELSE <<q, 100>>

(***************************************************************************)
(* Metric Aggregator: detection_metrics_from_tp_and_fp(tp, fp, npos)       *)
(***************************************************************************)
\* bounds of the aggregator's inputs
MaxFrames == 2

MaxPerFrame == 2

MaxNpos == 3

\* a frame slot is the placeholder [] (a Python list) or a numpy array of flags
ListFrame == [kind |-> "list", data |-> <<>>]

ArrayFrame(d) == [kind |-> "ndarray", data |-> d]

\* lines 407-421: the arrays of tp (and of fp, where tp holds an array)
\* written one after the other, the placeholders skipped
RECURSIVE Flatten(_, _)
Flatten(sel, by) ==
    IF sel = <<>> THEN <<>>
    ELSE (IF by[1].kind # "list" THEN sel[1].data ELSE <<>>)
         \o Flatten(Tail(sel), Tail(by))

\* np.cumsum
CumSum(s) == [k \in 1..Len(s) |-> SumSeq(SubSeq(s, 1, k))]

\* prec[0] in place of prec[-1]
FirstOf(s) == s[1]

\* prec[-1]
LastOf(s) == s[Len(s)]

\* np.max over a non-empty array
RECURSIVE MaxOf(_)
MaxOf(s) == IF Len(s) = 1 THEN s[1] ELSE FMax(s[1], MaxOf(Tail(s)))

\* lines 447-448: mpre[i - 1] = max(mpre[i - 1], mpre[i]) for i = size-1 .. 1
RECURSIVE Envelope(_, _)
Envelope(mpre, i) ==
    IF i < 2 THEN mpre
    ELSE Envelope([mpre EXCEPT ![i - 1] = FMax(mpre[i - 1], mpre[i])], i - 1)

\* lines 452-455: sum of (mrec[i + 1] - mrec[i]) * mpre[i + 1] over the i
\* where mrec changes (1-based here)
RECURSIVE ApSum(_, _, _)
ApSum(mrec, mpre, i) ==
    IF i >= Len(mrec) THEN <<0, 1>>
    ELSE LET rest == ApSum(mrec, mpre, i + 1)
         IN  IF FNeq(mrec[i + 1], mrec[i])
             THEN FAdd(FMul(FSub(mrec[i + 1], mrec[i]), mpre[i + 1]), rest)
             ELSE rest

\* the whole function, lines 405-464
detection_metrics_from_tp_and_fp(tpIn, fpIn, nposIn) ==
    LET tp_flat == Flatten(tpIn, tpIn)
        fp_flat == Flatten(fpIn, tpIn)
        ctp == CumSum(tp_flat)
        cfp == CumSum(fp_flat)
        n == Len(ctp)
        rec == [k \in 1..n |-> FDiv(ctp[k], nposIn)]
        \* tp / np.maximum(tp + fp, eps): 0 / eps = 0 where tp + fp = 0
        prec == [k \in 1..n |->
                    IF ctp[k] + cfp[k] = 0 THEN <<0, 1>>
                    ELSE Q(ctp[k], ctp[k] + cfp[k])]
        mrec == <<(<<0, 1>>)>> \o rec \o <<(<<1, 1>>)>>
        mpre == Envelope(<<(<<0, 1>>)>> \o prec \o <<(<<0, 1>>)>>, n + 2)
        ap == ApSum(mrec, mpre, 1)
    IN  IF n = 0
        THEN [AP |-> <<0, 1>>, Prec |-> <<0, 1>>, Rec |-> <<0, 1>>, TP |-> 0, FP |-> 0]
        ELSE [AP |-> Fmt2(ap),
              Prec |-> Fmt2(LastOf(prec)),
              Rec |-> Fmt2(MaxOf(rec)),
              TP |-> MaxOf([k \in 1..n |-> <<ctp[k], 1>>])[1],
              FP |-> MaxOf([k \in 1..n |-> <<cfp[k], 1>>])[1]]

\* the per-detection outcomes the matcher can produce: TP <<1, 0>> or FP <<0, 1>>
Outcomes == {<<1, 0>>, <<0, 1>>}

\* the frame slots of tp and of fp for one sequence of outcomes
TpFrame(o) == ArrayFrame([k \in 1..Len(o) |-> o[k][1]])

FpFrame(o) == ArrayFrame([k \in 1..Len(o) |-> o[k][2]])

\* the arguments of a call as evaluate_detections builds them (lines 346-364):
\* a slot per frame, a placeholder or the matcher's flags, and npos >= the TPs
ApStart ==
    /\ \E slots \in SeqUpTo({ListFrame} \cup
                             {ArrayFrame(o) : o \in SeqUpTo(Outcomes, MaxPerFrame)},
                           MaxFrames) :
          /\ tp = [k \in 1..Len(slots) |->
                     IF slots[k].kind = "list" THEN ListFrame
                     ELSE TpFrame(slots[k].data)]
          /\ fp = [k \in 1..Len(slots) |->
                     IF slots[k].kind = "list" THEN ListFrame
                     ELSE FpFrame(slots[k].data)]
    /\ npos \in 0..MaxNpos
    /\ npos >= SumSeq(Flatten(tp, tp))
    /\ detector_eval_dict = <<>>
    /\ ap_pc = "call"

\* s with the elements at k and k + 1 exchanged
Swap(s, k) == [s EXCEPT ![k] = s[k + 1], ![k + 1] = s[k]]

\* the call itself
Evaluate ==
    /\ ap_pc = "call"
    /\ ap_pc' = "done"
    /\ detector_eval_dict' = detection_metrics_from_tp_and_fp(tp, fp, npos)
    /\ UNCHANGED <<tp, fp, npos>>
    /\ UNCHANGED notAp

\* the same evaluation with two neighbouring frames given in the other order
EvaluateFramesSwapped ==
    /\ ap_pc = "done"
    /\ \E k \in 1..(Len(tp) - 1) :
          /\ tp' = Swap(tp, k)
          /\ fp' = Swap(fp, k)
    /\ detector_eval_dict' = detection_metrics_from_tp_and_fp(tp', fp', npos)
    /\ UNCHANGED <<npos, ap_pc>>
    /\ UNCHANGED notAp

\* the same evaluation with two neighbouring detections of a frame exchanged
EvaluateDetectionsSwapped ==
    /\ ap_pc = "done"
    /\ \E k \in 1..Len(tp) : \E a \in 1..(Len(tp[k].data) - 1) :
          /\ tp' = [tp EXCEPT ![k].data = Swap(tp[k].data, a)]
          /\ fp' = [fp EXCEPT ![k].data = Swap(fp[k].data, a)]
    /\ detector_eval_dict' = detection_metrics_from_tp_and_fp(tp', fp', npos)
    /\ UNCHANGED <<npos, ap_pc>>
    /\ UNCHANGED notAp

ApNext == Evaluate \/ EvaluateFramesSwapped \/ EvaluateDetectionsSwapped

(***************************************************************************)
(* Detection Matcher: tp_and_fp_of_detection(im_gt, im_det, ovthresh=0.5)  *)
(***************************************************************************)
\* bounds of the matcher's inputs
MaxGt == 2

MaxDet == 3

\* ovthresh = 0.5 = OvThreshNum / OvThreshDen
OvThreshNum == 1

OvThreshDen == 2

\* well-formed boxes (x2 >= x1, y2 >= y1) with the overlaps 1/5, 1/3, 2/5,
\* 1/2 (the threshold itself), 2/3 (twice, a tie) and 1 among them
MatchBoxes ==
    { <<0, 0, 1, 0>>, <<0, 0, 2, 0>>, <<1, 0, 2, 0>>, <<0, 0, 1, 1>> }

\* inters and uni of one ground-truth box g and the detection d (pixel-inclusive)
Inters(g, d) ==
    LET ixmin == Max(g[1], d[1])
        iymin == Max(g[2], d[2])
        ixmax == Min(g[3], d[3])
        iymax == Min(g[4], d[4])
        iw == Max(ixmax - ixmin + 1, 0)
        ih == Max(iymax - iymin + 1, 0)
    IN  iw * ih

Uni(g, d) ==
    (d[3] - d[1] + 1) * (d[4] - d[2] + 1)
    + (g[3] - g[1] + 1) * (g[4] - g[2] + 1)
    - Inters(g, d)

\* overlaps = inters / uni, one quotient <<inters, uni>> per ground-truth box
Overlaps(gt, d) == [j \in 1..Len(gt) |-> <<Inters(gt[j], d), Uni(gt[j], d)>>]

\* a < b for quotients with positive denominators
QLess(a, b) == a[1] * b[2] < b[1] * a[2]

\* np.argmax: a left-to-right scan that keeps the first maximum
RECURSIVE ArgMaxFrom(_, _, _)
ArgMaxFrom(ov, j, best) ==
    IF j > Len(ov) THEN best
    ELSE ArgMaxFrom(ov, j + 1, IF QLess(ov[best], ov[j]) THEN j ELSE best)

ArgMaxLast(ov) ==
    CHOOSE j \in 1..Len(ov) :
        /\ \A k \in 1..Len(ov) : ~QLess(ov[j], ov[k])
        /\ \A k \in (j + 1)..Len(ov) : QLess(ov[k], ov[j])

ArgMax(ov) == ArgMaxFrom(ov, 2, 1)

\* "ovmax = -np.inf" before the ground truth is looked at
InitialOvmaxPlus == Inf

InitialOvmax == NegInf

\* ovmax > ovthresh, for ovmax an infinity or a quotient
Exceeds(ovmax) == FGreater(ovmax, <<OvThreshNum, OvThreshDen>>)

\* "if found[jmax] == 0"
UnclaimedAlways(fnd, j) == TRUE

Unclaimed(fnd, j) == fnd[j] = 0

\* the state after the three np.zeros of lines 369-371
MatchStart ==
    /\ im_gt \in SeqUpTo(MatchBoxes, MaxGt)
    /\ im_det \in SeqUpTo(MatchBoxes, MaxDet)
    /\ found = Zeros(Len(im_gt))
    /\ im_tp = Zeros(Len(im_det))
    /\ im_fp = Zeros(Len(im_det))
    /\ det_i = 1
    /\ match_pc = "loop"

\* one iteration of "for i, d in enumerate(im_det)"
MatchStep ==
    /\ match_pc = "loop"
    /\ det_i <= Len(im_det)
    /\ LET d == im_det[det_i]
           hasGt == Len(im_gt) > 0
           overlaps == Overlaps(im_gt, d)
           jmax == IF hasGt THEN ArgMax(overlaps) ELSE 0
           ovmax == IF hasGt THEN overlaps[jmax] ELSE InitialOvmax
       IN  IF Exceeds(ovmax)
           THEN IF jmax = 0
                THEN \* jmax was never assigned: NameError
                     /\ match_pc' = "error"
                     /\ UNCHANGED <<found, im_tp, im_fp, det_i>>
                ELSE /\ IF Unclaimed(found, jmax)
                        THEN /\ im_tp' = [im_tp EXCEPT ![det_i] = 1]
                             /\ found' = [found EXCEPT ![jmax] = 1]
                             /\ UNCHANGED im_fp
                        ELSE /\ im_fp' = [im_fp EXCEPT ![det_i] = 1]
                             /\ UNCHANGED <<im_tp, found>>
                     /\ det_i' = det_i + 1
                     /\ UNCHANGED match_pc
           ELSE /\ im_fp' = [im_fp EXCEPT ![det_i] = 1]
                /\ det_i' = det_i + 1
                /\ UNCHANGED <<im_tp, found, match_pc>>
    /\ UNCHANGED <<im_gt, im_det>>
    /\ UNCHANGED notMatch

\* "return found, im_tp, im_fp"
MatchReturn ==
    /\ match_pc = "loop"
    /\ det_i > Len(im_det)
    /\ match_pc' = "done"
    /\ UNCHANGED <<im_gt, im_det, found, im_tp, im_fp, det_i>>
    /\ UNCHANGED notMatch

MatchNext == MatchStep \/ MatchReturn

(***************************************************************************)
(* Motion Classifier & Freezer: obj_is_moving, freeze_at_mean              *)
(***************************************************************************)
\* longest trajectory given to freeze_at_mean
MaxFreezeLen == 3

\* a row of four floats
Row(a, b, c, d) == <<Q(a, 1), Q(b, 1), Q(c, 1), Q(d, 1)>>

FreezeRows == {Row(0, 0, 1, 1), Row(10, 10, 1, 1), Row(1, 2, 3, 4)}

\* the sum of column c of the rows of t
RECURSIVE ColumnSum(_, _)
ColumnSum(t, c) ==
    IF t = <<>> THEN <<0, 1>> ELSE FAdd(t[1][c], ColumnSum(Tail(t), c))

\* traj.mean(0)
Mean0(t) == [c \in 1..4 |-> FMul(ColumnSum(t, c), <<1, Len(t)>>)]

\* row.repeat(n, 1): n copies of the one row
Repeat(row, n) == [k \in 1..n |-> row]

\* np.tile(t, (n, 1)): the whole array t written n times, one below the other
Tile(t, n) == [k \in 1..(n * Len(t)) |-> t[((k - 1) % Len(t)) + 1]]

\* the numpy branch, line 283
NumpyFrozen(t) == Tile(t, Len(t))

\* lines 278-285
freeze_at_mean(t, type) ==
    IF Len(t) > 1
    THEN IF type = "Tensor" THEN Repeat(Mean0(t), Len(t))
         ELSE NumpyFrozen(t)
    ELSE t

FreezeStart ==
    /\ traj \in SeqUpTo(FreezeRows, MaxFreezeLen) \ {<<>>}
    /\ traj_type \in {"ndarray", "Tensor"}
    /\ freeze_ret = <<>>
    /\ freeze_pc = "call"

FreezeCall ==
    /\ freeze_pc = "call"
    /\ freeze_ret' = freeze_at_mean(traj, traj_type)
    /\ freeze_pc' = "done"
    /\ UNCHANGED <<traj, traj_type>>
    /\ UNCHANGED notFreeze

FreezeNext == FreezeCall

\* longest trajectory given to obj_is_moving
MaxTrajLen == 14

\* pixel_per_second_tresh = 5
PixelPerSecondTresh == 5

\* time_treshold = 0.5 = TimeTresholdNum / TimeTresholdDen
TimeTresholdNum == 1

TimeTresholdDen == 2

\* dt = 1 / 25 = 1 / FramesPerSecond
FramesPerSecond == 25

\* "len(trajectory) > (time_treshold / dt)"
LongerThanOneSecond(n) == n > FramesPerSecond

LongEnough(n) == n * TimeTresholdDen > TimeTresholdNum * FramesPerSecond

\* trajectory[0, :2] and trajectory[-1, :2]
StartPoint(t) == <<t[1][1], t[1][2]>>

EndPoint(t) == <<t[Len(t)][1], t[Len(t)][2]>>

\* np.linalg.norm(start - end), squared
SquaredDistance(p, q) == (p[1] - q[1]) * (p[1] - q[1]) + (p[2] - q[2]) * (p[2] - q[2])

\* lines 259-275.  pixel_distance / (len * dt) > pixel_per_second_tresh, both
\* sides non-negative, compared by their squares:
\* (distance * 25)^2 > (5 * len)^2.  Exact; for the integer rows and the
\* lengths used here the float computation decides the same way.
obj_is_moving(t) ==
    IF LongEnough(Len(t))
    THEN SquaredDistance(StartPoint(t), EndPoint(t)) * FramesPerSecond * FramesPerSecond
            > PixelPerSecondTresh * PixelPerSecondTresh * Len(t) * Len(t)
    ELSE TRUE

\* corner-format boxes <<x1, y1, x2, y2>>: a box, the same shifted by 3 and
\* by 1, one of the same top-left corner and another centre, and one of the
\* same centre and another top-left corner
MovingBoxes ==
    { <<0, 0, 2, 2>>, <<3, 0, 5, 2>>, <<0, 1, 2, 3>>, <<0, 0, 8, 2>>, <<-2, -2, 4, 4>> }

\* a trajectory of n boxes: first, then the middle box, then last
Trajectory(n, first, mid, last) ==
    [k \in 1..n |-> IF k = 1 THEN first ELSE IF k = n THEN last ELSE mid]

MovingStart ==
    /\ \E n \in 1..MaxTrajLen : \E a, m, b \in MovingBoxes :
          mv_trajectory = Trajectory(n, a, m, b)
    /\ mv_ret = FALSE
    /\ mv_pc = "call"

MovingCall ==
    /\ mv_pc = "call"
    /\ mv_ret' = obj_is_moving(mv_trajectory)
    /\ mv_pc' = "done"
    /\ UNCHANGED mv_trajectory
    /\ UNCHANGED notMoving

MovingNext == MovingCall

(***************************************************************************)
(* The cv2.KalmanFilter object of a filter instance is the sequence of the *)
(* calls made on it since it was constructed or zeroed: its state estimate *)
(* and covariance, and so what predict() returns, are a function of that   *)
(* sequence.  A value returned by its predict() is named by the position   *)
(* of that call in the sequence.                                           *)
(***************************************************************************)
PredictOp == [op |-> "predict", z |-> <<>>]

CorrectOp(z) == [op |-> "correct", z |-> z]

\* position - trajectory[0]
RowSub(a, b) == [c \in 1..4 |-> a[c] - b[c]]

(***************************************************************************)
(* Trajectory filter: KalmanFilter and FullFilter                          *)
(***************************************************************************)
\* longest future_len
MaxFuture == 2

\* a call is made while the filter has absorbed at most this many calls
MaxKalmanOps == 4

\* the correction made before the prediction
RECURSIVE SmoothOpsCorrectFirst(_, _)
SmoothOpsCorrectFirst(t, k) ==
    IF k > Len(t) THEN <<>>
    ELSE <<[op |-> "correct", z |-> [c \in 1..4 |-> t[k][c] - t[1][c]]],
           [op |-> "predict", z |-> <<>>]>> \o SmoothOpsCorrectFirst(t, k + 1)

\* the loop of KalmanFilter.smooth from row k on: the calls it makes on the
\* cv2 filter (lines 244-249)
RECURSIVE SmoothOps(_, _)
SmoothOps(t, k) ==
    IF k > Len(t) THEN <<>>
    ELSE <<PredictOp, CorrectOp(RowSub(t[k], t[1]))>> \o SmoothOps(t, k + 1)

\* KalmanFilter.smooth (lines 226-256) on a filter that has absorbed log:
\* the filter afterwards and the returned rows, row k being the prediction
\* made by call number Len(log) + 2k - 1, offset by trajectory[0]
KalmanSmooth(log, t, type) ==
    [log |-> log \o SmoothOps(t, 1),
     ret |-> [type |-> type,
              rows |-> [k \in 1..Len(t) |->
                          [base |-> t[1], after |-> Len(log) + 2 * k - 1]]]]

\* the rows of an integer trajectory as floats
QRows(t) == [k \in 1..Len(t) |-> [c \in 1..4 |-> Q(t[k][c], 1)]]

\* FullFilter.smooth (lines 292-296)
FullSmooth(log, t, type) ==
    IF obj_is_moving(t)
    THEN KalmanSmooth(log, t, type)
    ELSE [log |-> log,
          ret |-> [type |-> type, rows |-> freeze_at_mean(QRows(t), type)]]

\* self.smooth, by the class of the instance
Smooth(cls, log, t, type) ==
    IF cls = "FullFilter" THEN FullSmooth(log, t, type) ELSE KalmanSmooth(log, t, type)

\* n + 1 calls of predict() in place of n
FutureOpsOneMore(n) == [k \in 1..(n + 1) |-> PredictOp]

\* the loop of lines 217-219: the calls it makes on the cv2 filter
FutureOps(n) == [k \in 1..n |-> PredictOp]

\* KalmanFilter.predict (lines 207-224), inherited by FullFilter: a tensor is
\* made a numpy array before self.smooth sees it
Predict(cls, log, t, type, n) ==
    LET smoothed == Smooth(cls, log, t, "ndarray")
    IN  [log |-> smoothed.log \o FutureOps(n),
         ret |-> [type |-> type,
                  rows |-> [k \in 1..n |->
                              [base |-> t[1], after |-> Len(smoothed.log) + k]]]]

\* trajectories of 1..MaxTrajLen boxes that stay at one box and end at that
\* box, one shifted by 1 pixel or one shifted by 3 pixels
FilterTrajectories ==
    { Trajectory(n, <<0, 0, 2, 2>>, <<0, 0, 2, 2>>, b) :
        n \in 1..MaxTrajLen, b \in {<<0, 0, 2, 2>>, <<0, 1, 2, 3>>, <<3, 0, 5, 2>>} }

\* a new instance: cv2.KalmanFilter(8, 4) starts at the zero state
FilterStart ==
    /\ filter_class \in {"KalmanFilter", "FullFilter"}
    /\ kalman = <<>>
    /\ trajectory = <<>>
    /\ trajectory_type = "ndarray"
    /\ future_len = 0
    /\ filter_ret = [type |-> "none", rows |-> <<>>]
    /\ last_call = "__init__"

\* predict(trajectory, future_len), future_len >= 1
PredictCall ==
    /\ Len(kalman) <= MaxKalmanOps
    /\ \E t \in FilterTrajectories, type \in {"ndarray", "Tensor"}, n \in 1..MaxFuture :
          LET r == Predict(filter_class, kalman, t, type, n)
          IN  /\ trajectory' = t
              /\ trajectory_type' = type
              /\ future_len' = n
              /\ kalman' = r.log
              /\ filter_ret' = r.ret
    /\ last_call' = "predict"
    /\ UNCHANGED filter_class
    /\ UNCHANGED notFilter

\* smooth(trajectory)
SmoothCall ==
    /\ Len(kalman) <= MaxKalmanOps
    /\ \E t \in FilterTrajectories, type \in {"ndarray", "Tensor"} :
          LET r == Smooth(filter_class, kalman, t, type)
          IN  /\ trajectory' = t
              /\ trajectory_type' = type
              /\ kalman' = r.log
              /\ filter_ret' = r.ret
    /\ last_call' = "smooth"
    /\ UNCHANGED <<filter_class, future_len>>
    /\ UNCHANGED notFilter

\* reset_state() (lines 201-205): both states and both covariances zero, as
\* after construction
ResetStateCall ==
    /\ kalman' = <<>>
    /\ filter_ret' = [type |-> "none", rows |-> <<>>]
    /\ last_call' = "reset_state"
    \* the call has no arguments
    /\ trajectory' = <<>>
    /\ trajectory_type' = "ndarray"
    /\ future_len' = 0
    /\ UNCHANGED filter_class
    /\ UNCHANGED notFilter

FilterNext == PredictCall \/ SmoothCall \/ ResetStateCall

(***************************************************************************)
(* Track filter: SORTKalmanFilter                                          *)
(***************************************************************************)
\* an update or predict is made while the filter has absorbed fewer calls
MaxSortOps == 4

\* "None"
None == <<>>

\* convert_box_to_state (lines 7-12) of one box: cx, cy, area, ratio
convert_box_to_state(b) ==
    LET cx == Q(b[1] + b[3], 2)
        cy == Q(b[2] + b[4], 2)
        w == b[3] - b[1]
        h == b[4] - b[2]
    IN  <<cx, cy, Q(w * h, 1), FDiv(w, h)>>

\* state - initial_state
StateSub(a, b) == [c \in 1..4 |-> FSub(a[c], b[c])]

SortBoxes == { <<0, 0, 2, 2>>, <<1, 0, 3, 4>>, <<0, 0, 4, 1>> }

\* __init__ (lines 41-96) ends with reset()
SortStart ==
    /\ initial_state = None
    /\ sort_kalman = <<>>
    /\ box = <<>>
    /\ sort_ret = [kind |-> "none"]
    /\ sort_last = "__init__"

\* reset() (lines 98-107): a new cv2 filter, no initial state
SortReset ==
    /\ sort_kalman' = <<>>
    /\ initial_state' = None
    /\ sort_ret' = [kind |-> "none"]
    /\ sort_last' = "reset"
    /\ UNCHANGED box
    /\ UNCHANGED notSort

\* predict() (lines 109-113): the cv2 filter predicts, then
\* "self.initial_state + relative_pred_state" raises TypeError on None
SortPredict ==
    /\ Len(sort_kalman) < MaxSortOps
    /\ sort_kalman' = Append(sort_kalman, PredictOp)
    /\ sort_ret' =
          IF initial_state = None
          THEN [kind |-> "TypeError"]
          ELSE [kind |-> "box", initial |-> initial_state, after |-> Len(sort_kalman')]
    /\ sort_last' = "predict"
    /\ UNCHANGED <<initial_state, box>>
    /\ UNCHANGED notSort

\* update(box) (lines 115-121)
SortUpdate ==
    /\ Len(sort_kalman) < MaxSortOps
    /\ \E b \in SortBoxes :
          LET state == convert_box_to_state(b)
          IN  /\ box' = b
              /\ IF initial_state = None
                 THEN /\ initial_state' = state
                      /\ sort_kalman' = Append(sort_kalman, PredictOp)
                 ELSE /\ sort_kalman' =
                            Append(sort_kalman, CorrectOp(StateSub(state, initial_state)))
                      /\ UNCHANGED initial_state
    /\ sort_ret' = [kind |-> "none"]
    /\ sort_last' = "update"
    /\ UNCHANGED notSort

SortNext == SortReset \/ SortPredict \/ SortUpdate

(***************************************************************************)
(* Box / state converter: convert_box_to_state, convert_state_to_box       *)
(***************************************************************************)
\* x1 and y1 of a box are in -MaxCoord..MaxCoord
MaxCoord == 2

\* width and height of a box are in 0..MaxSide
MaxSide == 3

\* a / b of floats
FQuot(a, b) ==
    IF IsNaN(a) \/ IsNaN(b) THEN NaN
    ELSE IF ~IsFinite(a)
         THEN (IF ~IsFinite(b) THEN NaN ELSE IF b[1] >= 0 THEN a ELSE FNeg(a))
    ELSE IF ~IsFinite(b) THEN <<0, 1>>
    ELSE IF b[1] = 0 THEN FDiv(a[1], 0)
    ELSE IF b[1] > 0 THEN Q(a[1] * b[2], a[2] * b[1])
    ELSE Q(-(a[1] * b[2]), a[2] * (-b[1]))

\* the largest r >= from with r * r <= n
RECURSIVE ISqrtFrom(_, _)
ISqrtFrom(n, from) ==
    IF (from + 1) * (from + 1) > n THEN from ELSE ISqrtFrom(n, from + 1)

\* np.sqrt: nan for a negative number; sqrt(n / d) = sqrt(n * d) / d, exact
\* when the root is rational and rounded down to a multiple of 1 / d otherwise
FSqrt(a) ==
    IF IsNaN(a) \/ a[1] < 0 THEN NaN
    ELSE IF ~IsFinite(a) THEN Inf
    ELSE Q(ISqrtFrom(a[1] * a[2], 0), a[2])

\* h = w in place of areas / w
BoxHeightAsWidth(areas, w) == w

\* line 18: h = areas / w
BoxHeight(areas, w) == FQuot(areas, w)

\* convert_state_to_box (lines 15-22) of one state
convert_state_to_box(s) ==
    LET cx == s[1]
        cy == s[2]
        areas == s[3]
        ratios == s[4]
        w == FSqrt(FMul(areas, ratios))
        h == BoxHeight(areas, w)
        half_w == FQuot(w, <<2, 1>>)
        half_h == FQuot(h, <<2, 1>>)
    IN  <<FSub(cx, half_w), FSub(cy, half_h), FAdd(cx, half_w), FAdd(cy, half_h)>>

\* boxes (x1, y1, x1 + w, y1 + h), the degenerate ones with w = 0 or h = 0
\* included
ConvertBoxes ==
    { <<x, y, x + w, y + h>> :
        x \in (-MaxCoord)..MaxCoord, y \in (-MaxCoord)..MaxCoord,
        w \in 0..MaxSide, h \in 0..MaxSide }

\* a box to convert
ConvertStart ==
    /\ boxes \in ConvertBoxes
    /\ states = <<>>
    /\ convert_ret = <<>>
    /\ convert_pc = "box"

\* states = convert_box_to_state(boxes)
BoxToState ==
    /\ convert_pc = "box"
    /\ states' = convert_box_to_state(boxes)
    /\ convert_pc' = "state"
    /\ UNCHANGED <<boxes, convert_ret>>
    /\ UNCHANGED notConvert

\* convert_state_to_box(states)
StateToBox ==
    /\ convert_pc = "state"
    /\ convert_ret' = convert_state_to_box(states)
    /\ convert_pc' = "done"
    /\ UNCHANGED <<boxes, states>>
    /\ UNCHANGED notConvert

ConvertNext == BoxToState \/ StateToBox

(***************************************************************************)
(* What the calls on the cv2.KalmanFilter(8, 4) of a KalmanFilter compute. *)
(* H, A, Q and R (lines 170-197) pair each of the 4 measured coordinates   *)
(* with its own velocity and with nothing else, and all pairs have the     *)
(* same entries, so the 8 x 8 covariance is one 2 x 2 matrix               *)
(* <<p00, p01, p10, p11>> shared by the 4 coordinates, and the state is a  *)
(* position and a velocity per coordinate.                                 *)
(***************************************************************************)
\* the arguments of __init__ (line 167): the defaults, and a coarse filter
\* whose matrices have small whole entries
DefaultArgs == [process_variance |-> 50, measurement_variance |-> 1, dt |-> <<1, 30>>]

CoarseArgs == [process_variance |-> 4, measurement_variance |-> 1, dt |-> <<1, 1>>]

KalmanArgs == {DefaultArgs, CoarseArgs}

FZero == <<0, 1>>

FZeros4 == <<FZero, FZero, FZero, FZero>>

\* lines 181-192: Q of one coordinate and its velocity
ProcessNoiseCov(args) ==
    LET pv == <<args.process_variance, 1>>
        dt == args.dt
        dt2 == FMul(dt, dt)
        dt3 == FMul(dt2, dt)
        dt4 == FMul(dt3, dt)
    IN  <<FMul(pv, FQuot(dt4, <<4, 1>>)), FMul(pv, FQuot(dt3, <<2, 1>>)),
          FMul(pv, FQuot(dt3, <<2, 1>>)), FMul(pv, dt2)>>

\* cv2.KalmanFilter(8, 4) (line 168) and reset_state (lines 201-205): both
\* state estimates and both covariances zero
KalmanZero ==
    [statePre |-> [pos |-> FZeros4, vel |-> FZeros4],
     statePost |-> [pos |-> FZeros4, vel |-> FZeros4],
     errorCovPre |-> FZeros4,
     errorCovPost |-> FZeros4]

\* kalman.predict(): statePre = A statePost, errorCovPre = A errorCovPost A' + Q,
\* and both are copied to the posterior
CvPredict(args, k) ==
    LET dt == args.dt
        P == k.errorCovPost
        Qn == ProcessNoiseCov(args)
        ap00 == FAdd(P[1], FMul(dt, P[3]))
        ap01 == FAdd(P[2], FMul(dt, P[4]))
        pre == [pos |-> [c \in 1..4 |->
                           FAdd(k.statePost.pos[c], FMul(dt, k.statePost.vel[c]))],
                vel |-> k.statePost.vel]
        cov == <<FAdd(FAdd(ap00, FMul(dt, ap01)), Qn[1]),
                 FAdd(ap01, Qn[2]),
                 FAdd(FAdd(P[3], FMul(dt, P[4])), Qn[3]),
                 FAdd(P[4], Qn[4])>>
    IN  [statePre |-> pre, statePost |-> pre, errorCovPre |-> cov, errorCovPost |-> cov]

\* kalman.correct(z): gain = (inv(H P H' + R) H P)', statePost = statePre +
\* gain (z - H statePre), errorCovPost = errorCovPre - gain H errorCovPre
CvCorrect(args, k, z) ==
    LET P == k.errorCovPre
        S == FAdd(P[1], <<args.measurement_variance, 1>>)
        g0 == FQuot(P[1], S)
        g1 == FQuot(P[2], S)
        inn == [c \in 1..4 |-> FSub(Q(z[c], 1), k.statePre.pos[c])]
    IN  [statePre |-> k.statePre,
         statePost |-> [pos |-> [c \in 1..4 |->
                                   FAdd(k.statePre.pos[c], FMul(g0, inn[c]))],
                        vel |-> [c \in 1..4 |->
                                   FAdd(k.statePre.vel[c], FMul(g1, inn[c]))]],
         errorCovPre |-> P,
         errorCovPost |-> <<FSub(P[1], FMul(g0, P[1])), FSub(P[2], FMul(g0, P[2])),
                            FSub(P[3], FMul(g1, P[1])), FSub(P[4], FMul(g1, P[2]))>>]

\* the cv2 filter after the first n calls of log
RECURSIVE KalmanAfter(_, _, _)
KalmanAfter(args, log, n) ==
    IF n = 0 THEN KalmanZero
    ELSE IF log[n].op = "predict"
         THEN CvPredict(args, KalmanAfter(args, log, n - 1))
         ELSE CvCorrect(args, KalmanAfter(args, log, n - 1), log[n].z)

\* "self.kalman.predict()[:4].squeeze() + trajectory[0]" (lines 218, 246):
\* the value of a returned row
RowValue(args, log, row) ==
    LET predicted == KalmanAfter(args, log, row.after).statePre.pos
    IN  [c \in 1..4 |-> FAdd(predicted[c], Q(row.base[c], 1))]

\* the values of the rows a call returned
RowValues(args, log, rows) == [k \in 1..Len(rows) |-> RowValue(args, log, rows[k])]

(***************************************************************************)
(* Detector comparison: MOT16ObjDetect.compare_detectors, one sequence     *)
(***************************************************************************)
\* most frames of the sequence
MaxCmpFrames == 2

\* most visible ground-truth boxes of a frame
MaxCmpGt == 2

\* ground-truth box number j of a frame: the boxes of a frame do not overlap
GtBox(j) == <<5 * j, 0, 5 * j + 1, 1>>

\* annotation["boxes"][visible] of a frame with n visible boxes
FrameGt(n) == [j \in 1..n |-> GtBox(j)]

\* frame_result["boxes"] of a detector: nothing, one of the first two
\* ground-truth boxes, a box that is on no ground truth, the first box twice,
\* or both boxes in either order
CmpDets ==
    { <<>>, <<GtBox(1)>>, <<GtBox(2)>>, <<GtBox(0)>>, <<GtBox(1), GtBox(1)>>,
      <<GtBox(1), GtBox(2)>>, <<GtBox(2), GtBox(1)>> }

\* tp_and_fp_of_detection (lines 368-402) from detection i on: the found
\* array it returns
RECURSIVE FoundFrom(_, _, _, _)
FoundFrom(gt, det, i, fnd) ==
    IF i > Len(det) THEN fnd
    ELSE LET hasGt == Len(gt) > 0
             overlaps == Overlaps(gt, det[i])
             jmax == IF hasGt THEN ArgMax(overlaps) ELSE 0
             ovmax == IF hasGt THEN overlaps[jmax] ELSE InitialOvmax
         IN  IF Exceeds(ovmax) /\ Unclaimed(fnd, jmax)
             THEN FoundFrom(gt, det, i + 1, [fnd EXCEPT ![jmax] = 1])
             ELSE FoundFrom(gt, det, i + 1, fnd)

\* found of tp_and_fp_of_detection(im_gt, im_det)
FoundBy(gt, det) == FoundFrom(gt, det, 1, Zeros(Len(gt)))

\* np.logical_and(a.astype("bool"), ~b.astype("bool"))
AndNot(a, b) == [j \in 1..Len(a) |-> a[j] # 0 /\ ~(b[j] # 0)]

\* np.where(mask)[0] from position j on: the 0-based indices of the true
\* entries, ascending
RECURSIVE WhereFrom(_, _)
WhereFrom(mask, j) ==
    IF j > Len(mask) THEN <<>>
    ELSE (IF mask[j] THEN <<j - 1>> ELSE <<>>) \o WhereFrom(mask, j + 1)

Where(mask) == WhereFrom(mask, 1)

\* ndarray.any() of an array of integers: some element is not 0
AnyNonZero(a) == \E i \in 1..Len(a) : a[i] # 0

\* lines 289-306 for one frame: the entries of the sequence after the frame
CompareFrameResult(results, id, gt, det1, det2) ==
    LET found1 == FoundBy(gt, det1)
        found2 == FoundBy(gt, det2)
        tp_exclusive_1 == Where(AndNot(found1, found2))
        tp_exclusive_2 == Where(AndNot(found2, found1))
    IN  IF AnyNonZero(tp_exclusive_1) \/ AnyNonZero(tp_exclusive_2)
        THEN Append(results, [frame_id |-> id,
                              exclusive_1 |-> tp_exclusive_1,
                              exclusive_2 |-> tp_exclusive_2])
        ELSE results

\* line 265 and the start of the loop over the frames of the sequence
CompareStart ==
    /\ frame_id = 0
    /\ frame_gt = <<>>
    /\ im_det1 = <<>>
    /\ im_det2 = <<>>
    /\ compare_results = <<>>
    /\ compare_pc = "loop"

\* one iteration of the loop of lines 270-306: the next frame of the two
\* result lists and its annotation
CompareFrame ==
    /\ compare_pc = "loop"
    /\ frame_id < MaxCmpFrames
    /\ frame_id' = frame_id + 1
    /\ \E n \in 0..MaxCmpGt, det1 \in CmpDets, det2 \in CmpDets :
          /\ frame_gt' = FrameGt(n)
          /\ im_det1' = det1
          /\ im_det2' = det2
          /\ compare_results' =
                CompareFrameResult(compare_results, frame_id', FrameGt(n), det1, det2)
    /\ UNCHANGED compare_pc
    /\ UNCHANGED notCompare

\* the result lists are exhausted: line 307
CompareReturn ==
    /\ compare_pc = "loop"
    /\ compare_pc' = "done"
    /\ UNCHANGED <<frame_id, frame_gt, im_det1, im_det2, compare_results>>
    /\ UNCHANGED notCompare

CompareNext == CompareFrame \/ CompareReturn

(***************************************************************************)
(* Specifications: one per component, the other components at rest         *)
(***************************************************************************)
MatchIdle ==
    /\ im_gt = <<>>
    /\ im_det = <<>>
    /\ found = <<>>
    /\ im_tp = <<>>
    /\ im_fp = <<>>
    /\ det_i = 0
    /\ match_pc = "idle"

ApIdle ==
    /\ tp = <<>>
    /\ fp = <<>>
    /\ npos = 0
    /\ detector_eval_dict = <<>>
    /\ ap_pc = "idle"

FreezeIdle ==
    /\ traj = <<>>
    /\ traj_type = "ndarray"
    /\ freeze_ret = <<>>
    /\ freeze_pc = "idle"

MovingIdle ==
    /\ mv_trajectory = <<>>
    /\ mv_ret = FALSE
    /\ mv_pc = "idle"

FilterIdle ==
    /\ filter_class = "none"
    /\ kalman = <<>>
    /\ trajectory = <<>>
    /\ trajectory_type = "ndarray"
    /\ future_len = 0
    /\ filter_ret = [type |-> "none", rows |-> <<>>]
    /\ last_call = "idle"

SortIdle ==
    /\ initial_state = None
    /\ sort_kalman = <<>>
    /\ box = <<>>
    /\ sort_ret = [kind |-> "none"]
    /\ sort_last = "idle"

ConvertIdle ==
    /\ boxes = <<>>
    /\ states = <<>>
    /\ convert_ret = <<>>
    /\ convert_pc = "idle"

CompareIdle ==
    /\ frame_id = 0
    /\ frame_gt = <<>>
    /\ im_det1 = <<>>
    /\ im_det2 = <<>>
    /\ compare_results = <<>>
    /\ compare_pc = "idle"

MatchInit ==
    /\ ApIdle
    /\ FreezeIdle
    /\ MovingIdle
    /\ FilterIdle
    /\ SortIdle
    /\ ConvertIdle
    /\ CompareIdle
    /\ MatchStart

SpecMatch == MatchInit /\ [][MatchNext]_vars

ApInit ==
    /\ MatchIdle
    /\ FreezeIdle
    /\ MovingIdle
    /\ FilterIdle
    /\ SortIdle
    /\ ConvertIdle
    /\ CompareIdle
    /\ ApStart

SpecAP == ApInit /\ [][ApNext]_vars

FreezeInit ==
    /\ MatchIdle
    /\ ApIdle
    /\ MovingIdle
    /\ FilterIdle
    /\ SortIdle
    /\ ConvertIdle
    /\ CompareIdle
    /\ FreezeStart

SpecFreeze == FreezeInit /\ [][FreezeNext]_vars

MovingInit ==
    /\ MatchIdle
    /\ ApIdle
    /\ FreezeIdle
    /\ FilterIdle
    /\ SortIdle
    /\ ConvertIdle
    /\ CompareIdle
    /\ MovingStart

SpecMoving == MovingInit /\ [][MovingNext]_vars

FilterInit ==
    /\ MatchIdle
    /\ ApIdle
    /\ FreezeIdle
    /\ MovingIdle
    /\ SortIdle
    /\ ConvertIdle
    /\ CompareIdle
    /\ FilterStart

SpecFilter == FilterInit /\ [][FilterNext]_vars

SortInit ==
    /\ MatchIdle
    /\ ApIdle
    /\ FreezeIdle
    /\ MovingIdle
    /\ FilterIdle
    /\ ConvertIdle
    /\ CompareIdle
    /\ SortStart

SpecSort == SortInit /\ [][SortNext]_vars

ConvertInit ==
    /\ MatchIdle
    /\ ApIdle
    /\ FreezeIdle
    /\ MovingIdle
    /\ FilterIdle
    /\ SortIdle
    /\ CompareIdle
    /\ ConvertStart

SpecConvert == ConvertInit /\ [][ConvertNext]_vars

CompareInit ==
    /\ MatchIdle
    /\ ApIdle
    /\ FreezeIdle
    /\ MovingIdle
    /\ FilterIdle
    /\ SortIdle
    /\ ConvertIdle
    /\ CompareStart

SpecCompare == CompareInit /\ [][CompareNext]_vars

(***************************************************************************)
(* Claims about the matcher                                                *)
(***************************************************************************)
\* the detections the loop has classified so far
Processed == 1..(det_i - 1)

\* the ground-truth box of maximum overlap with detection i, lowest index on
\* ties; 0 when there is no ground truth
RECURSIVE OverlapsUpTo(_, _)
OverlapsUpTo(i, n) ==
    IF n = 0 THEN <<>>
    ELSE Append(OverlapsUpTo(i, n - 1),
                <<Inters(im_gt[n], im_det[i]), Uni(im_gt[n], im_det[i])>>)

BestGt(i) ==
    LET ov == OverlapsUpTo(i, Len(im_gt))
    IN  IF Len(im_gt) = 0 THEN 0
        ELSE CHOOSE j \in 1..Len(im_gt) :
            /\ \A k \in 1..Len(im_gt) : ov[k][1] * ov[j][2] <= ov[j][1] * ov[k][2]
            /\ \A k \in 1..(j - 1) : ov[k][1] * ov[j][2] < ov[j][1] * ov[k][2]

\* the overlap of detection i with ground-truth box j is strictly above ovthresh
Above(i, j) ==
    /\ j # 0
    /\ OvThreshDen * Inters(im_gt[j], im_det[i]) > OvThreshNum * Uni(im_gt[j], im_det[i])

\* BestGt, and whether it is above the threshold, of the detections 1..n
RECURSIVE BestSeq(_)
BestSeq(n) == IF n = 0 THEN <<>> ELSE Append(BestSeq(n - 1), BestGt(n))

RECURSIVE AboveSeq(_, _)
AboveSeq(best, n) ==
    IF n = 0 THEN <<>> ELSE Append(AboveSeq(best, n - 1), Above(n, best[n]))

\* C1: each ground-truth box is claimed by at most one detection: as many
\* detections are TP as ground-truth boxes are found, never more than there are
\* ground-truth boxes, and of several detections whose best match above the
\* threshold is the same box only the earliest is TP, every later one FP.
C1_OneClaimPerGt ==
    LET best == BestSeq(det_i - 1)
        above == AboveSeq(best, det_i - 1)
    IN  /\ match_pc # "error"
        /\ SumSeq(im_tp) = SumSeq(found)
        /\ SumSeq(im_tp) <= Len(im_gt)
        /\ \A b \in Processed :
              above[b] =>
                IF \E a \in 1..(b - 1) : above[a] /\ best[a] = best[b]
                THEN im_tp[b] = 0 /\ im_fp[b] = 1
                ELSE im_tp[b] = 1 /\ im_fp[b] = 0

\* two detections with the same best match were classified, the second as FP
C1_Witness ==
    LET best == BestSeq(det_i - 1)
        above == AboveSeq(best, det_i - 1)
    IN  /\ match_pc = "done"
        /\ \E a, b \in Processed :
              /\ a < b /\ above[a] /\ above[b] /\ best[a] = best[b]
              /\ im_tp[a] = 1 /\ im_fp[b] = 1

\* C2: a detection is TP iff its maximum overlap (lowest index on ties) is
\* strictly above the threshold and that box was not claimed by an earlier
\* detection; otherwise it is FP; every detection has exactly one flag.
C2_MatchRule ==
    LET best == BestSeq(det_i - 1)
        above == AboveSeq(best, det_i - 1)
    IN  \A i \in Processed :
            /\ im_tp[i] + im_fp[i] = 1
            /\ im_tp[i] = 1 <=>
                  /\ above[i]
                  /\ ~\E a \in 1..(i - 1) : im_tp[a] = 1 /\ best[a] = best[i]

\* a detection was made FP because its best box was taken, although another,
\* unclaimed box also exceeds the threshold; another's best overlap is
\* exactly the threshold
C2_Witness ==
    LET best == BestSeq(det_i - 1)
        above == AboveSeq(best, det_i - 1)
    IN  /\ match_pc = "done"
        /\ \E i \in Processed :
              /\ above[i] /\ im_fp[i] = 1
              /\ \E j \in 1..Len(im_gt) :
                    j # best[i] /\ found[j] = 0 /\ Above(i, j)
        /\ \E i \in Processed :
              /\ best[i] # 0
              /\ OvThreshDen * Inters(im_gt[best[i]], im_det[i])
                    = OvThreshNum * Uni(im_gt[best[i]], im_det[i])
              /\ im_fp[i] = 1

\* C3: with no ground truth the call ends without error, every detection is
\* FP, none TP, and found is empty.
C3_EmptyGt ==
    Len(im_gt) = 0 =>
        /\ match_pc # "error"
        /\ found = <<>>
        /\ \A i \in Processed : im_tp[i] = 0 /\ im_fp[i] = 1
        /\ \A i \in 1..Len(im_det) \ Processed : im_tp[i] = 0

\* the call returned for an empty ground truth and the largest detection array
C3_Witness ==
    /\ match_pc = "done"
    /\ Len(im_gt) = 0
    /\ Len(im_det) = MaxDet
    /\ SumSeq(im_fp) = MaxDet


(***************************************************************************)
(* Claims about the metric aggregator                                      *)
(***************************************************************************)
\* both sides of a step are finished evaluations of the same detections
Reevaluated == ap_pc = "done" /\ ap_pc' = "done"

\* C4 as stated: the AP does not depend on the order in which the frames, and
\* the detections inside them, are concatenated (npos and the multiset of
\* outcomes fixed).
C4_APOrderIndependent ==
    [][Reevaluated => detector_eval_dict'.AP = detector_eval_dict.AP]_vars

\* C4 as amended: Prec, Rec, TP and FP do not depend on that order (the AP does).
C4_TotalsOrderIndependent ==
    [][Reevaluated =>
        /\ detector_eval_dict'.Prec = detector_eval_dict.Prec
        /\ detector_eval_dict'.Rec = detector_eval_dict.Rec
        /\ detector_eval_dict'.TP = detector_eval_dict.TP
        /\ detector_eval_dict'.FP = detector_eval_dict.FP]_vars

\* an evaluation of an ordering with an FP ahead of a TP, in different frames
C4_Witness ==
    /\ ap_pc = "done"
    /\ Len(tp) = 2
    /\ tp[1].kind = "ndarray" /\ tp[2].kind = "ndarray"
    /\ \E a \in 1..Len(tp[1].data) : fp[1].data[a] = 1
    /\ \E b \in 1..Len(tp[2].data) : tp[2].data[b] = 1
    /\ detector_eval_dict.TP >= 1 /\ detector_eval_dict.FP >= 1

IsZero(a) == a[2] # 0 /\ a[1] = 0

\* C5: with npos = 0 the AP, Prec and Rec are reported as 0.0, finite, with or
\* without detections.
C5_ZeroNposZeroMetrics ==
    (ap_pc = "done" /\ npos = 0) =>
        /\ IsZero(detector_eval_dict.AP)
        /\ IsZero(detector_eval_dict.Prec)
        /\ IsZero(detector_eval_dict.Rec)

(***************************************************************************)
(* Claims about the motion classifier and the freezer                      *)
(***************************************************************************)
\* C6: a trajectory of length L > 1, numpy array or torch tensor, comes back
\* as exactly L rows, each the column-wise mean of the input rows; a
\* trajectory of length 1 comes back unchanged.
C6_FreezeAtMean ==
    freeze_pc = "done" =>
        IF Len(traj) > 1
        THEN /\ Len(freeze_ret) = Len(traj)
             /\ \A r \in 1..Len(freeze_ret) : \A c \in 1..4 :
                    FMul(freeze_ret[r][c], <<Len(traj), 1>>) = ColumnSum(traj, c)
        ELSE freeze_ret = traj

\* twice the centre of a corner-format box
Centre2(b) == <<b[1] + b[3], b[2] + b[4]>>

\* a squared distance d2 is that of a distance above 5 px/s times the duration
\* len / 25 s of the trajectory t: d > len / 5
AboveSpeed(d2, t) == 25 * d2 > Len(t) * Len(t)

\* C7 as stated: 12 frames or fewer: moving; 13 or more: moving when the
\* centres of the first and last box are more than 5 px/s times the duration
\* apart, not moving when those centres are identical.
C7_MovingByCentres ==
    mv_pc = "done" =>
        LET t == mv_trajectory
            c1 == Centre2(t[1])
            c2 == Centre2(t[Len(t)])
        IN  /\ Len(t) <= 12 => mv_ret
            \* (2 * distance)^2 = SquaredDistance(c1, c2)
            /\ (Len(t) >= 13 /\ 25 * SquaredDistance(c1, c2) > 4 * Len(t) * Len(t))
                  => mv_ret
            /\ (Len(t) >= 13 /\ c1 = c2) => ~mv_ret

\* C7 as amended: the points compared are the first two columns of the first
\* and last row, the top-left corners <<x1, y1>> of corner-format boxes.
C7_MovingByFirstTwoColumns ==
    mv_pc = "done" =>
        LET t == mv_trajectory
            p1 == <<t[1][1], t[1][2]>>
            p2 == <<t[Len(t)][1], t[Len(t)][2]>>
        IN  /\ Len(t) <= 12 => mv_ret
            /\ (Len(t) >= 13 /\ AboveSpeed(SquaredDistance(p1, p2), t)) => mv_ret
            /\ (Len(t) >= 13 /\ p1 = p2) => ~mv_ret

\* 13 frames, the last box with the first one's corner and another centre:
\* classified not moving
C7_Witness ==
    /\ mv_pc = "done"
    /\ Len(mv_trajectory) = 13
    /\ mv_trajectory[1] = <<0, 0, 2, 2>>
    /\ mv_trajectory[13] = <<0, 0, 8, 2>>
    /\ ~mv_ret

(***************************************************************************)
(* Claims about the trajectory filter                                      *)
(***************************************************************************)
\* one predict-then-correct step per box of t, each measurement relative to
\* the first box
StepPerBox(t) ==
    [k \in 1..(2 * Len(t)) |->
        IF k % 2 = 1 THEN [op |-> "predict", z |-> <<>>]
        ELSE [op |-> "correct",
              z |-> [c \in 1..4 |-> t[k \div 2][c] - t[1][c]]]]

\* n predict steps and nothing else
PredictSteps(n) == [k \in 1..n |-> [op |-> "predict", z |-> <<>>]]

\* the step is a call of predict(trajectory', future_len')
IsPredictCall == last_call' = "predict"

\* the call returns future_len boxes, each offset by the trajectory's first box
ReturnsFutureLenBoxes ==
    /\ Len(filter_ret'.rows) = future_len'
    /\ \A k \in 1..future_len' : filter_ret'.rows[k].base = trajectory'[1]

\* C8 as stated: for KalmanFilter and FullFilter alike, predict runs one
\* predict-then-correct step per box of the trajectory, then exactly
\* future_len predict steps, and returns future_len boxes offset by the
\* trajectory's first box.
C8_PredictAbsorbsTrajectory ==
    [][IsPredictCall =>
        /\ kalman' = kalman \o StepPerBox(trajectory') \o PredictSteps(future_len')
        /\ ReturnsFutureLenBoxes]_vars

\* C8 as amended: so it is for KalmanFilter, and for FullFilter when
\* obj_is_moving(trajectory); a FullFilter given a trajectory that is not
\* moving runs no step on the trajectory, only the future_len predict steps.
C8_PredictAbsorbsMovingTrajectory ==
    [][IsPredictCall =>
        /\ IF filter_class = "KalmanFilter" \/ obj_is_moving(trajectory')
           THEN kalman' = kalman \o StepPerBox(trajectory') \o PredictSteps(future_len')
           ELSE kalman' = kalman \o PredictSteps(future_len')
        /\ ReturnsFutureLenBoxes]_vars

\* a FullFilter predicted from a trajectory that is not moving, and its cv2
\* filter has seen the future_len predict steps only
C8_Witness ==
    /\ last_call = "predict"
    /\ filter_class = "FullFilter"
    /\ Len(trajectory) >= 13
    /\ ~obj_is_moving(trajectory)
    /\ future_len = MaxFuture
    /\ kalman = PredictSteps(future_len)

(***************************************************************************)
(* Claims about the track filter                                           *)
(***************************************************************************)
\* the state (cx, cy, area, ratio) of a box with positive width and height
StateOfBox(b) ==
    << Q(b[1] + b[3], 2), Q(b[2] + b[4], 2),
       Q((b[3] - b[1]) * (b[4] - b[2]), 1), Q(b[3] - b[1], b[4] - b[2]) >>

\* C9: the reference is absent after construction and after every reset; the
\* first update after that sets it to the state of its box and feeds no
\* measurement to the filter; every later update leaves it unchanged and
\* corrects the filter with (state of box minus reference); predict never
\* changes it and returns the box of (reference plus the relative prediction).
C9_ReferenceLifecycle ==
    [][/\ sort_last' = "reset" => initial_state' = None
       /\ (sort_last' = "update" /\ initial_state = None) =>
             /\ initial_state' = StateOfBox(box')
             /\ \A k \in 1..Len(sort_kalman') : sort_kalman'[k].op # "correct"
       /\ (sort_last' = "update" /\ initial_state # None) =>
             /\ initial_state' = initial_state
             /\ sort_kalman' =
                   Append(sort_kalman,
                          [op |-> "correct",
                           z |-> [c \in 1..4 |->
                                    FSub(StateOfBox(box')[c], initial_state[c])]])
       /\ sort_last' = "predict" =>
             /\ initial_state' = initial_state
             /\ sort_ret'.kind = "box"
             /\ sort_ret'.initial = initial_state
             /\ sort_ret'.after = Len(sort_kalman) + 1
             /\ sort_kalman'[Len(sort_kalman')].op = "predict"]_vars

\* C10: predict() returns a box in every state, also when issued after
\* construction or reset() and before the first update(); it never fails for
\* lack of an initial state.
C10_PredictAlwaysReturnsBox ==
    sort_last = "predict" => sort_ret.kind = "box"

(***************************************************************************)
(* Claims about the box / state converter                                  *)
(***************************************************************************)
\* the width and the height of the box being converted
HasPositiveSides(b) == b[3] - b[1] > 0 /\ b[4] - b[2] > 0

\* C11: for every box with strictly positive width and height,
\* convert_state_to_box(convert_box_to_state(b)) is b again, coordinate by
\* coordinate, in exact arithmetic.
C11_RoundTrip ==
    (convert_pc = "done" /\ HasPositiveSides(boxes))
        => convert_ret = [c \in 1..4 |-> Q(boxes[c], 1)]

\* a box that is not square and whose centre is not at whole pixels has made
\* the round trip
C11_Witness ==
    /\ convert_pc = "done"
    /\ boxes = <<-1, 0, 2, 2>>
    /\ states = <<Q(1, 2), Q(1, 1), Q(6, 1), Q(3, 2)>>
    /\ convert_ret = <<Q(-1, 1), Q(0, 1), Q(2, 1), Q(2, 1)>>

(***************************************************************************)
(* Claims about KalmanFilter.smooth                                        *)
(***************************************************************************)
\* one predict and one correct per box for the first n boxes of t
RECURSIVE StepsFor(_, _)
StepsFor(t, n) ==
    IF n = 0 THEN <<>>
    ELSE StepsFor(t, n - 1)
         \o <<[op |-> "predict", z |-> <<>>],
              [op |-> "correct", z |-> [c \in 1..4 |-> t[n][c] - t[1][c]]]>>

\* a box as a row of floats
QRow(b) == [c \in 1..4 |-> Q(b[c], 1)]

\* KalmanFilter.smooth has run: smooth of a KalmanFilter, or of a FullFilter
\* on a trajectory that is moving
IsKalmanSmoothCall ==
    /\ last_call' = "smooth"
    /\ filter_class = "KalmanFilter" \/ obj_is_moving(trajectory')

\* C12: KalmanFilter.smooth of a trajectory of L >= 1 boxes returns L rows; row
\* k is the first box plus the prediction the cv2 filter made after it had
\* absorbed the steps of the boxes before k and nothing of box k or of a later
\* box, the correction with box k coming right after that prediction; on a
\* new filter, whatever its arguments, the first row is the first box.
C12_SmoothOneStepAhead ==
    [][IsKalmanSmoothCall =>
        LET t == trajectory'
            rows == filter_ret'.rows
        IN  /\ Len(rows) = Len(t)
            /\ \A k \in 1..Len(t) :
                  /\ rows[k].base = t[1]
                  /\ SubSeq(kalman', 1, rows[k].after)
                        = kalman \o StepsFor(t, k - 1) \o <<[op |-> "predict", z |-> <<>>]>>
                  /\ kalman'[rows[k].after + 1]
                        = [op |-> "correct", z |-> [c \in 1..4 |-> t[k][c] - t[1][c]]]
            /\ kalman = <<>> =>
                  \A a \in KalmanArgs : RowValue(a, kalman', rows[1]) = QRow(t[1])
      ]_vars

\* a new KalmanFilter has smoothed 3 boxes of which the last is 3 pixels to
\* the right: it returned 3 rows, all of them the first box, the third one
\* made before the displaced box was absorbed
C12_Witness ==
    /\ last_call = "smooth"
    /\ filter_class = "KalmanFilter"
    /\ trajectory = <<(<<0, 0, 2, 2>>), (<<0, 0, 2, 2>>), (<<3, 0, 5, 2>>)>>
    /\ Len(kalman) = 6
    /\ kalman[6].z = <<3, 0, 3, 0>>
    /\ Len(filter_ret.rows) = 3
    /\ RowValues(CoarseArgs, kalman, filter_ret.rows)
          = <<QRow(<<0, 0, 2, 2>>), QRow(<<0, 0, 2, 2>>), QRow(<<0, 0, 2, 2>>)>>

\* a smooth call follows a smooth call of the same trajectory on the same
\* KalmanFilter, with no reset_state in between
IsRepeatedSmooth ==
    /\ last_call = "smooth"
    /\ last_call' = "smooth"
    /\ trajectory' = trajectory
    /\ filter_class = "KalmanFilter"

\* C13: two calls of smooth with the same trajectory on the same KalmanFilter
\* instance, no reset_state in between, return the same sequence of boxes.
\* Stated for a filter built with the coarse arguments and for calls that
\* leave at most 8 steps absorbed, where the returned values are computed.
C13_SmoothRepeatable ==
    [][(IsRepeatedSmooth /\ Len(kalman') <= 8) =>
          RowValues(CoarseArgs, kalman', filter_ret'.rows)
              = RowValues(CoarseArgs, kalman, filter_ret.rows)
      ]_vars

(***************************************************************************)
(* Claims about compare_detectors                                          *)
(***************************************************************************)
\* the 0-based indices of the ground-truth boxes found by the detector with
\* detections a and not by the one with detections b
FoundOnlyBy(gt, a, b) ==
    { j - 1 : j \in { i \in 1..Len(gt) : FoundBy(gt, a)[i] = 1 /\ FoundBy(gt, b)[i] = 0 } }

\* the elements of an array
Elements(a) == { a[i] : i \in 1..Len(a) }

\* the entries recorded for a frame
EntriesOf(results, id) ==
    { i \in 1..Len(results) : results[i].frame_id = id }

\* C14: a frame gets an entry exactly when some ground-truth box, whatever its
\* index, is found by one detector and not by the other, and the entry lists
\* the indices found by detector 1 only and by detector 2 only.
C14_EntryPerDifference ==
    [][frame_id' = frame_id + 1 =>
        LET only1 == FoundOnlyBy(frame_gt', im_det1', im_det2')
            only2 == FoundOnlyBy(frame_gt', im_det2', im_det1')
            entries == EntriesOf(compare_results', frame_id')
        IN  IF only1 \cup only2 = {}
            THEN entries = {}
            ELSE /\ Cardinality(entries) = 1
                 /\ \A i \in entries :
                       /\ Elements(compare_results'[i].exclusive_1) = only1
                       /\ Elements(compare_results'[i].exclusive_2) = only2
      ]_vars

====
